---- MODULE Spec2Model ----
(***************************************************************************)
(* Model of internal/cryptoutil: CreateSigner / newKMSSigner, the          *)
(* predicates IsKMSSigner and IsX509Signer, and kmsSigner.Sign with the    *)
(* step-kms-plugin child process, its three pipes, the digest writer       *)
(* goroutine and the copy goroutines of exec.Cmd.Output.                   *)
(***************************************************************************)
EXTENDS Integers, Sequences, FiniteSets, TLC

VARIABLES
    signer,     \* the crypto.Signer returned by CreateSigner, or NoSigner
    createErr,  \* the error returned by CreateSigner, or Nil
    keySpawns,  \* number of "key" subprocesses started so far
    pc,         \* per caller: position in its use of the signer
    ret,        \* the last value returned by Public / IsKMSSigner / IsX509Signer
    opts,       \* per caller: crypto.SignerOpts of the running Sign call
    args,       \* per caller: argument list built by Sign
    result,     \* per caller: (signature, err) returned by Sign
    spawned,    \* per caller: child processes started by the running Sign call
    handles,    \* per caller: pipe ends the Sign call holds open in this process
    writer,     \* per caller: the digest writer goroutine
    stdinBuf,   \* per caller: bytes buffered in the child's stdin pipe
    stdoutBuf,  \* per caller: characters buffered in the child's stdout pipe
    stderrBuf,  \* per caller: characters buffered in the child's stderr pipe
    out,        \* per caller: bytes.Buffer filled by the stdout copy goroutine
    errOut,     \* per caller: stderr captured by the stderr copy goroutine
    plug        \* per caller: the plugin child process

sigVars  == <<signer, createErr, keySpawns>>
callVars == <<pc, opts, args, result, spawned>>
ioVars   == <<handles, writer, stdinBuf, stdoutBuf, stderrBuf, out, errOut, plug>>
vars     == <<signer, createErr, keySpawns, pc, ret, opts, args, result,
             spawned, handles, writer, stdinBuf, stdoutBuf, stderrBuf, out,
             errOut, plug>>

(***************************************************************************)
(* Bounds                                                                  *)
(***************************************************************************)
PipeCap   == 2   \* capacity of each pipe buffer (stands for the OS's 64KB)
MaxDigest == 3   \* longest digest, chosen above PipeCap
MaxReads  == 1   \* most read(2) calls a plugin issues on its stdin

Nil      == [kind |-> "nil"]
NoSigner == [variant |-> "none"]
NoRet    == [op |-> "none"]

(***************************************************************************)
(* Strings.  A Go string is a TLA+ string; Chars gives its characters for  *)
(* the operations that look inside it.                                     *)
(***************************************************************************)
Chars(s) ==
    CASE s = ""              -> <<>>
      [] s = "pkcs11:"       -> <<"p","k","c","s","1","1",":">>
      [] s = "sshagentkms:"  -> <<"s","s","h","a","g","e","n","t","k","m","s",":">>
      [] s = "SSHAgentKMS:a" -> <<"S","S","H","A","g","e","n","t","K","M","S",":","a">>
      [] s = "sshagentkms"   -> <<"s","s","h","a","g","e","n","t","k","m","s">>
      [] s = "xsshagentkms:" -> <<"x","s","s","h","a","g","e","n","t","k","m","s",":">>
      [] s = "SSHAGENTKMS;"  -> <<"S","S","H","A","G","E","N","T","K","M","S",";">>

Upper == <<"A","B","C","D","E","F","G","H","I","J","K","L","M",
           "N","O","P","Q","R","S","T","U","V","W","X","Y","Z">>
Lower == <<"a","b","c","d","e","f","g","h","i","j","k","l","m",
           "n","o","p","q","r","s","t","u","v","w","x","y","z">>

\* a comparison that forgets to fold the case
ToLowerNone(cs) == cs

\* strings.ToLower, on characters
ToLower(cs) ==
    [i \in 1..Len(cs) |->
        IF \E j \in 1..26 : Upper[j] = cs[i]
        THEN Lower[CHOOSE j \in 1..26 : Upper[j] = cs[i]]
        ELSE cs[i]]

\* strings.HasPrefix, on characters
HasPrefix(cs, prefix) ==
    /\ Len(cs) >= Len(prefix)
    /\ SubSeq(cs, 1, Len(prefix)) = prefix

SSHAgentPrefix == <<"s","s","h","a","g","e","n","t","k","m","s",":">>

(***************************************************************************)
(* Signers and the predicates on them                                      *)
(***************************************************************************)
KeyTypes == {"rsa", "ecdsa", "ed25519", "x25519"}

\* IsKMSSigner: the type assertion signer.(*kmsSigner)
IsKMSSigner(s) == s.variant = "kms"

\* (*kmsSigner).Public, and Public of a key read from a file
Public(s) == s.pub

IsX509Signer(s) ==
    LET pub == Public(s) IN
    IF IsKMSSigner(s) /\ HasPrefix(ToLower(Chars(s.kms)), SSHAgentPrefix)
    THEN pub = "ed25519"
    ELSE pub \in {"ecdsa", "rsa", "ed25519"}

\* cmd.String(): the path followed by the arguments
CmdString(name, a) == <<name>> \o a

\* exitError
exitError(cmd, err) ==
    IF err.kind = "ExitError"
    THEN [kind |-> "command failed with stderr", cmd |-> cmd, stderr |-> err.stderr]
    ELSE [kind |-> "command failed with", cmd |-> cmd, cause |-> err]

PluginPath == "step-kms-plugin"

\* argument list of the "key" subprocess
KeyArgs(kms, key) ==
    <<"key">> \o (IF kms # "" THEN <<"--kms", kms>> ELSE <<>>) \o <<key>>

\* newKMSSigner, given what plugin.LookPath, the "key" subprocess and
\* pemutil.Parse do: look is "ok" or "notfound"; run is the outcome of
\* cmd.Output(); parsed is a key type or "error".  Yields <<signer, err, n>>
\* with n the number of subprocesses started.
newKMSSigner(kms, key, look, run, parsed) ==
    LET cmd == CmdString(PluginPath, KeyArgs(kms, key)) IN
    IF look # "ok"
    THEN <<NoSigner, [kind |-> "LookPath"], 0>>
    ELSE IF run.kind = "start"
    THEN <<NoSigner, exitError(cmd, [kind |-> "start"]), 0>>
    ELSE IF run.kind = "ExitError"
    THEN <<NoSigner, exitError(cmd, run), 1>>
    ELSE IF parsed = "error"
    THEN <<NoSigner, [kind |-> "pemutil.Parse"], 1>>
    ELSE <<[variant |-> "kms", pub |-> parsed, name |-> PluginPath,
            kms |-> kms, key |-> key], Nil, 1>>

KeyRuns == { [kind |-> "start"],
             [kind |-> "ExitError", stderr |-> <<"e">>],
             [kind |-> "ok"] }

\* a call of newKMSSigner: the environment picks what LookPath, the "key"
\* subprocess and pemutil.Parse do
NewKMSSignerCall(kms, key, Types) ==
    \E look \in {"ok", "notfound"}, run \in KeyRuns, parsed \in Types \cup {"error"} :
        LET r == newKMSSigner(kms, key, look, run, parsed) IN
        /\ signer' = r[1]
        /\ createErr' = r[2]
        /\ keySpawns' = keySpawns + r[3]

\* CreateSigner: a key file when kms is empty (read is what pemutil.Read
\* yields: "error", a "certificate", or a private key of some type),
\* newKMSSigner otherwise.
CreateSigner(Kms, Keys, Types) ==
    /\ signer = NoSigner
    /\ createErr = Nil
    /\ \E kms \in Kms, name \in Keys :
         IF kms = ""
         THEN \E read \in {"error", "certificate"} \cup Types :
                /\ signer' = IF read \in Types
                             THEN [variant |-> "local", pub |-> read]
                             ELSE NoSigner
                /\ createErr' = CASE read = "error"       -> [kind |-> "pemutil.Read"]
                                  [] read = "certificate" -> [kind |-> "not a private key",
                                                              file |-> name]
                                  [] OTHER                -> Nil
                /\ keySpawns' = keySpawns
         ELSE NewKMSSignerCall(kms, name, Types)
    /\ UNCHANGED <<pc, ret, opts, args, result, spawned>>
    /\ UNCHANGED ioVars

\* newKMSSigner called from inside the package, where kms may be empty
NewKMSSigner(Kms, Keys, Types) ==
    /\ signer = NoSigner
    /\ createErr = Nil
    /\ \E kms \in Kms, key \in Keys : NewKMSSignerCall(kms, key, Types)
    /\ UNCHANGED <<pc, ret, opts, args, result, spawned>>
    /\ UNCHANGED ioVars

\* a Public that asks the plugin for the key again
CallPublicRefetch ==
    /\ signer # NoSigner
    /\ ret' = [op |-> "Public", val |-> Public(signer)]
    /\ keySpawns' = keySpawns + 1
    /\ UNCHANGED <<signer, createErr, callVars, ioVars>>

\* a caller asks for the public key
CallPublic ==
    /\ signer # NoSigner
    /\ ret' = [op |-> "Public", val |-> Public(signer)]
    /\ UNCHANGED <<sigVars, callVars, ioVars>>

\* a caller asks IsKMSSigner
CallIsKMSSigner ==
    /\ signer # NoSigner
    /\ ret' = [op |-> "IsKMSSigner", val |-> IsKMSSigner(signer)]
    /\ UNCHANGED <<sigVars, callVars, ioVars>>

\* a caller asks IsX509Signer
CallIsX509Signer ==
    /\ signer # NoSigner
    /\ ret' = [op |-> "IsX509Signer", val |-> IsX509Signer(signer)]
    /\ UNCHANGED <<sigVars, callVars, ioVars>>

(***************************************************************************)
(* kmsSigner.Sign: the argument list                                       *)
(***************************************************************************)
Hashes == {"SHA1", "SHA224", "SHA256", "SHA384", "SHA512"}

\* crypto.Hash.String()
HashString(h) ==
    CASE h = "SHA1"   -> "SHA-1"
      [] h = "SHA224" -> "SHA-224"
      [] h = "SHA256" -> "SHA-256"
      [] h = "SHA384" -> "SHA-384"
      [] h = "SHA512" -> "SHA-512"

\* a switch whose default case falls back to SHA256
AlgArgsDefault(h) ==
    CASE h = "SHA384" -> <<"--alg", "SHA384">>
      [] h = "SHA512" -> <<"--alg", "SHA512">>
      [] OTHER        -> <<"--alg", "SHA256">>

\* the switch on opts.HashFunc(): the --alg pair, or <<>> for the default case
AlgArgs(h) ==
    CASE h = "SHA256" -> <<"--alg", "SHA256">>
      [] h = "SHA384" -> <<"--alg", "SHA384">>
      [] h = "SHA512" -> <<"--alg", "SHA512">>
      [] OTHER        -> <<>>

\* --kms given even when kms is empty
KmsArgsAlways(s) == <<"--kms", s.kms>>

KmsArgs(s) == IF s.kms # "" THEN <<"--kms", s.kms>> ELSE <<>>

PssArgs(o) == IF o.pss THEN <<"--pss">> ELSE <<>>

\* --alg appended before --pss
RsaArgsAlgFirst(o) == AlgArgs(o.hash) \o PssArgs(o)

\* the arguments appended for an RSA public key
RsaArgs(o) == PssArgs(o) \o AlgArgs(o.hash)

\* lines 116-135: the argument list, or the error of the default case
BuildArgs(s, o) ==
    LET base == <<"sign", "--format", "base64">> \o KmsArgs(s) IN
    IF s.pub = "rsa"
    THEN IF AlgArgs(o.hash) = <<>>
         THEN [err  |-> [kind |-> "unsupported hash function",
                         hash |-> HashString(o.hash)],
               args |-> <<>>]
         ELSE [err |-> Nil, args |-> base \o RsaArgs(o) \o <<s.key>>]
    ELSE [err |-> Nil, args |-> base \o <<s.key>>]

NoOpts   == [pss |-> FALSE, hash |-> "none"]
NoResult == [sig |-> <<>>, err |-> Nil]
NoProg   == [out |-> <<>>, err |-> <<>>, reads |-> 0, code |-> 0]
NoPlug   == [st |-> "none", op |-> "", prog |-> NoProg, out |-> <<>>,
             err |-> <<>>, reads |-> 0]
NoWriter == [st |-> "none", left |-> 0, failed |-> FALSE, closed |-> FALSE]

\* Sign, lines 116-135
SignArgs(c, Opts) ==
    /\ pc[c] = "ready"
    /\ IsKMSSigner(signer)
    /\ \E o \in Opts :
         LET b == BuildArgs(signer, o) IN
         /\ opts' = [opts EXCEPT ![c] = o]
         /\ args' = [args EXCEPT ![c] = b.args]
         /\ IF b.err = Nil
            THEN /\ pc' = [pc EXCEPT ![c] = "args"]
                 /\ result' = result
            ELSE /\ pc' = [pc EXCEPT ![c] = "returned"]
                 /\ result' = [result EXCEPT ![c] = [sig |-> <<>>, err |-> b.err]]
    /\ UNCHANGED <<ret, spawned>>
    /\ UNCHANGED sigVars
    /\ UNCHANGED ioVars

\* Sign, lines 137-145 when os.Pipe succeeds: the pipe is open at both ends
\* and the writer goroutine is started with the digest
SignStdinPipe(c, Digests) ==
    /\ pc[c] = "args"
    /\ \E n \in Digests :
         writer' = [writer EXCEPT ![c] = [st |-> "write", left |-> n,
                                         failed |-> FALSE, closed |-> FALSE]]
    /\ handles' = [handles EXCEPT ![c] = {"stdin_r", "stdin_w"}]
    /\ pc' = [pc EXCEPT ![c] = "piped"]
    /\ UNCHANGED <<ret, opts, args, result, spawned>>
    /\ UNCHANGED sigVars
    /\ UNCHANGED <<stdinBuf, stdoutBuf, stderrBuf, out, errOut, plug>>

\* Sign, lines 138-141 when cmd.StdinPipe fails: the error is returned as it is
SignStdinPipeFail(c) ==
    /\ pc[c] = "args"
    /\ pc' = [pc EXCEPT ![c] = "returned"]
    /\ result' = [result EXCEPT ![c] = [sig |-> <<>>, err |-> [kind |-> "os.Pipe"]]]
    /\ UNCHANGED <<ret, opts, args, spawned>>
    /\ UNCHANGED sigVars
    /\ UNCHANGED ioVars

(***************************************************************************)
(* The digest writer goroutine, lines 142-145                              *)
(***************************************************************************)
Min(a, b) == IF a < b THEN a ELSE b

\* some process holds the read end of the stdin pipe
StdinHasReader(c) == "stdin_r" \in handles[c] \/ plug[c].st = "run"

\* stdin.Write(digest) can neither proceed nor fail
WriterBlocked(c) ==
    /\ writer[c].st = "write"
    /\ writer[c].left > 0
    /\ "stdin_w" \in handles[c]
    /\ StdinHasReader(c)
    /\ stdinBuf[c] = PipeCap

\* stdin.Write(digest) moves what fits into the pipe; it returns once all is written
WriterWrite(c) ==
    /\ writer[c].st = "write"
    /\ "stdin_w" \in handles[c]
    /\ StdinHasReader(c)
    /\ writer[c].left = 0 \/ stdinBuf[c] < PipeCap
    /\ LET n == Min(writer[c].left, PipeCap - stdinBuf[c]) IN
         /\ stdinBuf' = [stdinBuf EXCEPT ![c] = @ + n]
         /\ writer' = [writer EXCEPT ![c].left = @ - n,
                                     ![c].st = IF writer[c].left = n
                                               THEN "close" ELSE "write"]
    /\ UNCHANGED <<sigVars, callVars, ret>>
    /\ UNCHANGED <<handles, stdoutBuf, stderrBuf, out, errOut, plug>>

\* a writer that closes the pipe only after a successful write
WriterWriteFailNoClose(c) ==
    /\ writer[c].st = "write"
    /\ "stdin_w" \notin handles[c] \/ ~StdinHasReader(c)
    /\ writer' = [writer EXCEPT ![c].st = "done", ![c].failed = TRUE]
    /\ UNCHANGED <<sigVars, callVars, ret>>
    /\ UNCHANGED <<handles, stdinBuf, stdoutBuf, stderrBuf, out, errOut, plug>>

\* stdin.Write(digest) fails: the file was closed, or nobody can read the
\* pipe any more (EPIPE); the error is dropped
WriterWriteFail(c) ==
    /\ writer[c].st = "write"
    /\ "stdin_w" \notin handles[c] \/ ~StdinHasReader(c)
    /\ writer' = [writer EXCEPT ![c].st = "close", ![c].failed = TRUE]
    /\ UNCHANGED <<sigVars, callVars, ret>>
    /\ UNCHANGED <<handles, stdinBuf, stdoutBuf, stderrBuf, out, errOut, plug>>

\* the deferred stdin.Close()
WriterClose(c) ==
    /\ writer[c].st = "close"
    /\ writer' = [writer EXCEPT ![c].st = "done", ![c].closed = TRUE]
    /\ handles' = [handles EXCEPT ![c] = @ \ {"stdin_w"}]
    /\ UNCHANGED <<sigVars, callVars, ret>>
    /\ UNCHANGED <<stdinBuf, stdoutBuf, stderrBuf, out, errOut, plug>>

(***************************************************************************)
(* cmd.Output(), line 146: Start, the copy goroutines, Wait                *)
(***************************************************************************)
\* Start succeeds: the stdout and stderr pipes exist, the child runs with
\* its ends of the three pipes, the parent closes its copy of the child's
\* ends and starts the two copy goroutines
Start(c, Plugins) ==
    /\ pc[c] = "piped"
    /\ \E p \in Plugins :
         plug' = [plug EXCEPT ![c] = [st |-> "run", op |-> "", prog |-> p,
                                      out |-> p.out, err |-> p.err,
                                      reads |-> p.reads]]
    /\ handles' = [handles EXCEPT ![c] = (@ \ {"stdin_r"}) \cup {"stdout_r", "stderr_r"}]
    /\ spawned' = [spawned EXCEPT ![c] = @ + 1]
    /\ pc' = [pc EXCEPT ![c] = "started"]
    /\ UNCHANGED <<sigVars, ret, opts, args, result>>
    /\ UNCHANGED <<writer, stdinBuf, stdoutBuf, stderrBuf, out, errOut>>

\* a failed Start that leaves the pipe ends open
StartFailLeak(c) ==
    /\ pc[c] = "piped"
    /\ result' = [result EXCEPT ![c] =
                    [sig |-> <<>>,
                     err |-> exitError(CmdString(signer.name, args[c]),
                                       [kind |-> "start"])]]
    /\ pc' = [pc EXCEPT ![c] = "returned"]
    /\ UNCHANGED <<sigVars, ret, opts, args, spawned>>
    /\ UNCHANGED ioVars

\* Start fails: every pipe end is closed, Output returns the error and
\* Sign returns exitError of it (lines 147-149)
StartFail(c) ==
    /\ pc[c] = "piped"
    /\ handles' = [handles EXCEPT ![c] = {}]
    /\ result' = [result EXCEPT ![c] =
                    [sig |-> <<>>,
                     err |-> exitError(CmdString(signer.name, args[c]),
                                       [kind |-> "start"])]]
    /\ pc' = [pc EXCEPT ![c] = "returned"]
    /\ UNCHANGED <<sigVars, ret, opts, args, spawned>>
    /\ UNCHANGED <<writer, stdinBuf, stdoutBuf, stderrBuf, out, errOut, plug>>

\* stdout read only once the digest has been written and the pipe closed
CopyStdoutAfterWrite(c) ==
    /\ writer[c].st = "done"
    /\ "stdout_r" \in handles[c]
    /\ IF stdoutBuf[c] # <<>>
       THEN /\ out' = [out EXCEPT ![c] = @ \o stdoutBuf[c]]
            /\ stdoutBuf' = [stdoutBuf EXCEPT ![c] = <<>>]
            /\ handles' = handles
       ELSE /\ plug[c].st = "exited"
            /\ handles' = [handles EXCEPT ![c] = @ \ {"stdout_r"}]
            /\ UNCHANGED <<out, stdoutBuf>>
    /\ UNCHANGED <<sigVars, callVars, ret>>
    /\ UNCHANGED <<writer, stdinBuf, stderrBuf, errOut, plug>>

\* the goroutine copying the child's stdout into the buffer; at EOF it
\* closes the read end
CopyStdout(c) ==
    /\ "stdout_r" \in handles[c]
    /\ IF stdoutBuf[c] # <<>>
       THEN /\ out' = [out EXCEPT ![c] = @ \o stdoutBuf[c]]
            /\ stdoutBuf' = [stdoutBuf EXCEPT ![c] = <<>>]
            /\ handles' = handles
       ELSE /\ plug[c].st = "exited"
            /\ handles' = [handles EXCEPT ![c] = @ \ {"stdout_r"}]
            /\ UNCHANGED <<out, stdoutBuf>>
    /\ UNCHANGED <<sigVars, callVars, ret>>
    /\ UNCHANGED <<writer, stdinBuf, stderrBuf, errOut, plug>>

\* the goroutine copying the child's stderr
CopyStderr(c) ==
    /\ "stderr_r" \in handles[c]
    /\ IF stderrBuf[c] # <<>>
       THEN /\ errOut' = [errOut EXCEPT ![c] = @ \o stderrBuf[c]]
            /\ stderrBuf' = [stderrBuf EXCEPT ![c] = <<>>]
            /\ handles' = handles
       ELSE /\ plug[c].st = "exited"
            /\ handles' = [handles EXCEPT ![c] = @ \ {"stderr_r"}]
            /\ UNCHANGED <<errOut, stderrBuf>>
    /\ UNCHANGED <<sigVars, callVars, ret>>
    /\ UNCHANGED <<writer, stdinBuf, stdoutBuf, out, plug>>

(***************************************************************************)
(* The plugin: an opaque program prog that reads its stdin at most         *)
(* prog.reads times, writes prog.out to stdout and prog.err to stderr in   *)
(* any order, and exits with prog.code; out, err and reads are what is     *)
(* left to do                                                              *)
(***************************************************************************)
PluginOps(p) ==
    (IF p.reads > 0 THEN {"read"} ELSE {})
    \cup (IF p.out # <<>> THEN {"stdout"} ELSE {})
    \cup (IF p.err # <<>> THEN {"stderr"} ELSE {})

\* the plugin enters its next system call
PluginNext(c) ==
    /\ plug[c].st = "run"
    /\ plug[c].op = ""
    /\ \E op \in PluginOps(plug[c]) : plug' = [plug EXCEPT ![c].op = op]
    /\ UNCHANGED <<sigVars, callVars, ret>>
    /\ UNCHANGED <<handles, writer, stdinBuf, stdoutBuf, stderrBuf, out, errOut>>

\* read(0): takes what the pipe holds, or sees EOF once the write end is
\* closed; blocks on an empty pipe whose write end is open
PluginRead(c) ==
    /\ plug[c].st = "run"
    /\ plug[c].op = "read"
    /\ IF stdinBuf[c] > 0
       THEN /\ stdinBuf' = [stdinBuf EXCEPT ![c] = 0]
            /\ plug' = [plug EXCEPT ![c].op = "", ![c].reads = @ - 1]
       ELSE /\ "stdin_w" \notin handles[c]
            /\ stdinBuf' = stdinBuf
            /\ plug' = [plug EXCEPT ![c].op = "", ![c].reads = 0]
    /\ UNCHANGED <<sigVars, callVars, ret>>
    /\ UNCHANGED <<handles, writer, stdoutBuf, stderrBuf, out, errOut>>

\* write(1) blocks while the stdout pipe is full
PluginStdoutBlocked(c) ==
    /\ plug[c].st = "run"
    /\ plug[c].op = "stdout"
    /\ Len(stdoutBuf[c]) = PipeCap

\* write(1) of one character
PluginWriteStdout(c) ==
    /\ plug[c].st = "run"
    /\ plug[c].op = "stdout"
    /\ Len(stdoutBuf[c]) < PipeCap
    /\ stdoutBuf' = [stdoutBuf EXCEPT ![c] = Append(@, Head(plug[c].out))]
    /\ plug' = [plug EXCEPT ![c].op = "", ![c].out = Tail(@)]
    /\ UNCHANGED <<sigVars, callVars, ret>>
    /\ UNCHANGED <<handles, writer, stdinBuf, stderrBuf, out, errOut>>

\* write(2) of one character
PluginWriteStderr(c) ==
    /\ plug[c].st = "run"
    /\ plug[c].op = "stderr"
    /\ Len(stderrBuf[c]) < PipeCap
    /\ stderrBuf' = [stderrBuf EXCEPT ![c] = Append(@, Head(plug[c].err))]
    /\ plug' = [plug EXCEPT ![c].op = "", ![c].err = Tail(@)]
    /\ UNCHANGED <<sigVars, callVars, ret>>
    /\ UNCHANGED <<handles, writer, stdinBuf, stdoutBuf, out, errOut>>

\* exit(code): the child's pipe ends close
PluginExit(c) ==
    /\ plug[c].st = "run"
    /\ plug[c].op = ""
    /\ PluginOps(plug[c]) = {}
    /\ plug' = [plug EXCEPT ![c].st = "exited"]
    /\ UNCHANGED <<sigVars, callVars, ret>>
    /\ UNCHANGED <<handles, writer, stdinBuf, stdoutBuf, stderrBuf, out, errOut>>

(***************************************************************************)
(* base64.StdEncoding.DecodeString, line 150                               *)
(***************************************************************************)
B64Alphabet ==
    <<"A","B","C","D","E","F","G","H","I","J","K","L","M","N","O","P",
      "Q","R","S","T","U","V","W","X","Y","Z","a","b","c","d","e","f",
      "g","h","i","j","k","l","m","n","o","p","q","r","s","t","u","v",
      "w","x","y","z","0","1","2","3","4","5","6","7","8","9","+","/">>

IsB64(ch) == \E i \in 1..64 : B64Alphabet[i] = ch

\* the 6-bit value of a character of the alphabet
B64Val(ch) == (CHOOSE i \in 1..64 : B64Alphabet[i] = ch) - 1

\* the decoder skips '\r' and '\n' wherever they stand
StripNewlines(cs) == SelectSeq(cs, LAMBDA ch : ch \notin {"\n", "\r"})

\* the bytes of a quantum of n characters (n in 2..4), the missing ones zero
QuantumBytes(q, n) ==
    LET v(i) == IF i <= n THEN B64Val(q[i]) ELSE 0
        val  == v(1) * 262144 + v(2) * 4096 + v(3) * 64 + v(4)
        all  == <<val \div 65536, (val \div 256) % 256, val % 256>>
    IN  SubSeq(all, 1, n - 1)

\* decodes quantum after quantum; yields the bytes decoded so far and
\* whether the input was well formed
RECURSIVE DecodeQuanta(_)
DecodeQuanta(cs) ==
    IF cs = <<>> THEN [sig |-> <<>>, ok |-> TRUE]
    ELSE IF Len(cs) >= 4 /\ \A i \in 1..4 : IsB64(cs[i])
    THEN LET rest == DecodeQuanta(SubSeq(cs, 5, Len(cs))) IN
         [sig |-> QuantumBytes(cs, 4) \o rest.sig, ok |-> rest.ok]
    ELSE IF /\ Len(cs) = 4 /\ IsB64(cs[1]) /\ IsB64(cs[2])
            /\ IsB64(cs[3]) /\ cs[4] = "="
    THEN [sig |-> QuantumBytes(cs, 3), ok |-> TRUE]
    ELSE IF /\ Len(cs) = 4 /\ IsB64(cs[1]) /\ IsB64(cs[2])
            /\ cs[3] = "=" /\ cs[4] = "="
    THEN [sig |-> QuantumBytes(cs, 2), ok |-> TRUE]
    ELSE [sig |-> <<>>, ok |-> FALSE]

DecodeString(cs) == DecodeQuanta(StripNewlines(cs))

\* a result that does not look at the exit status
SignResultIgnoreExit(s, a, code, stdout, stderr) ==
    LET d == DecodeString(stdout) IN
    [sig |-> d.sig,
     err |-> IF d.ok THEN Nil ELSE [kind |-> "base64.CorruptInputError"]]

\* lines 146-150 once cmd.Output() has the exit status and both copy
\* goroutines have finished
SignResult(s, a, code, stdout, stderr) ==
    IF code # 0
    THEN [sig |-> <<>>,
          err |-> exitError(CmdString(s.name, a),
                            [kind |-> "ExitError", stderr |-> stderr])]
    ELSE LET d == DecodeString(stdout) IN
         [sig |-> d.sig,
          err |-> IF d.ok THEN Nil ELSE [kind |-> "base64.CorruptInputError"]]

\* Wait returns: the child has exited and both copy goroutines are done;
\* Wait closes the parent's end of the stdin pipe, and Sign returns
SignReturn(c) ==
    /\ pc[c] = "started"
    /\ plug[c].st = "exited"
    /\ handles[c] \cap {"stdout_r", "stderr_r"} = {}
    /\ handles' = [handles EXCEPT ![c] = {}]
    /\ result' = [result EXCEPT ![c] =
                    SignResult(signer, args[c], plug[c].prog.code, out[c], errOut[c])]
    /\ pc' = [pc EXCEPT ![c] = "returned"]
    /\ UNCHANGED <<sigVars, ret, opts, args, spawned>>
    /\ UNCHANGED <<writer, stdinBuf, stdoutBuf, stderrBuf, out, errOut, plug>>

(***************************************************************************)
(* Inputs                                                                  *)
(***************************************************************************)
AllKms   == {"", "pkcs11:", "sshagentkms:", "SSHAgentKMS:a", "sshagentkms",
             "xsshagentkms:", "SSHAGENTKMS;"}
Keys     == {"k1"}
AllOpts  == [pss : BOOLEAN, hash : Hashes]
Digests  == {0, 1, MaxDigest}
ExitCodes == {0, 1}

\* what a plugin may print: nothing, well formed base64 (with and without
\* a final newline, longer than a pipe buffer), and malformed base64
Stdouts == { <<>>,
             <<"Q","Q","=","=">>,
             <<"Q","U","E","=","\n">>,
             <<"Q","U","F","B">>,
             <<"Q","!","=","=">>,
             <<"Q","Q","=">>,
             <<"Q","Q","=","=","Q">> }
Stderrs == { <<>>, <<"e","r","r">> }

AllPlugins == [out : Stdouts, err : Stderrs, reads : 0..MaxReads, code : ExitCodes]

FewPlugins == { [out |-> <<"Q","Q","=","=">>, err |-> <<"w">>, reads |-> 1, code |-> 0],
                [out |-> <<>>, err |-> <<"e","r","r">>, reads |-> 0, code |-> 1] }

OnePlugin == { [out |-> <<"Q","Q","=","=">>, err |-> <<"w">>, reads |-> 1, code |-> 0] }

(***************************************************************************)
(* Specifications                                                          *)
(***************************************************************************)
InitFor(C) ==
    /\ signer = NoSigner
    /\ createErr = Nil
    /\ keySpawns = 0
    /\ ret = NoRet
    /\ pc = [c \in C |-> "ready"]
    /\ opts = [c \in C |-> NoOpts]
    /\ args = [c \in C |-> <<>>]
    /\ result = [c \in C |-> NoResult]
    /\ spawned = [c \in C |-> 0]
    /\ handles = [c \in C |-> {}]
    /\ writer = [c \in C |-> NoWriter]
    /\ stdinBuf = [c \in C |-> 0]
    /\ stdoutBuf = [c \in C |-> <<>>]
    /\ stderrBuf = [c \in C |-> <<>>]
    /\ out = [c \in C |-> <<>>]
    /\ errOut = [c \in C |-> <<>>]
    /\ plug = [c \in C |-> NoPlug]

NextFor(Kms, Types, Opts, Ds, Plugins) ==
    \/ CreateSigner(Kms, Keys, Types)
    \/ NewKMSSigner(Kms, Keys, Types)
    \/ CallPublic
    \/ CallIsKMSSigner
    \/ CallIsX509Signer
    \/ \E c \in DOMAIN pc : SignArgs(c, Opts)
    \/ \E c \in DOMAIN pc : SignStdinPipe(c, Ds)
    \/ \E c \in DOMAIN pc : SignStdinPipeFail(c)
    \/ \E c \in DOMAIN pc : WriterWrite(c)
    \/ \E c \in DOMAIN pc : WriterWriteFail(c)
    \/ \E c \in DOMAIN pc : WriterClose(c)
    \/ \E c \in DOMAIN pc : Start(c, Plugins)
    \/ \E c \in DOMAIN pc : StartFail(c)
    \/ \E c \in DOMAIN pc : CopyStdout(c)
    \/ \E c \in DOMAIN pc : CopyStderr(c)
    \/ \E c \in DOMAIN pc : PluginNext(c)
    \/ \E c \in DOMAIN pc : PluginRead(c)
    \/ \E c \in DOMAIN pc : PluginWriteStdout(c)
    \/ \E c \in DOMAIN pc : PluginWriteStderr(c)
    \/ \E c \in DOMAIN pc : PluginExit(c)
    \/ \E c \in DOMAIN pc : SignReturn(c)

\* every goroutine and the child get to run; whether Sign is called is up
\* to the caller
Fairness(C, Ds, Plugins) ==
    \A c \in C :
        /\ WF_vars(SignStdinPipe(c, Ds) \/ SignStdinPipeFail(c))
        /\ WF_vars(Start(c, Plugins) \/ StartFail(c))
        /\ WF_vars(WriterWrite(c))
        /\ WF_vars(WriterWriteFail(c))
        /\ WF_vars(WriterClose(c))
        /\ WF_vars(CopyStdout(c))
        /\ WF_vars(CopyStderr(c))
        /\ WF_vars(PluginNext(c))
        /\ WF_vars(PluginRead(c))
        /\ WF_vars(PluginWriteStdout(c))
        /\ WF_vars(PluginWriteStderr(c))
        /\ WF_vars(PluginExit(c))
        /\ WF_vars(SignReturn(c))

One == {"c1"}
Two == {"c1", "c2"}

\* one caller, every signer and every signing option, two plugins
Init == InitFor(One)
Next == NextFor(AllKms, KeyTypes, AllOpts, {1}, FewPlugins)
Spec == Init /\ [][Next]_vars

\* one caller, one signer, every digest length and every plugin
InitIO == InitFor(One)
NextIO == NextFor({"pkcs11:"}, {"ecdsa"}, {[pss |-> FALSE, hash |-> "SHA256"]},
                  Digests, AllPlugins)
SpecIO == InitIO /\ [][NextIO]_vars

\* one caller, one signer, every digest length, the plugins that print
\* nothing or more than a pipe buffer; every goroutine and the child run
LivePlugins == [out : {<<>>, <<"Q","U","E","=","\n">>}, err : Stderrs,
                reads : 0..MaxReads, code : ExitCodes]
InitLive == InitFor(One)
NextLive == NextFor({"pkcs11:"}, {"ecdsa"}, {[pss |-> FALSE, hash |-> "SHA256"]},
                    Digests, LivePlugins)
FairSpec == InitLive /\ [][NextLive]_vars /\ Fairness(One, Digests, LivePlugins)

\* two callers of one signer
InitConc == InitFor(Two)
NextConc == NextFor({"pkcs11:"}, {"rsa"},
                    {[pss |-> TRUE, hash |-> "SHA256"], [pss |-> FALSE, hash |-> "SHA1"]},
                    {1}, OnePlugin)
SpecConc == InitConc /\ [][NextConc]_vars

(***************************************************************************)
(* Properties                                                              *)
(***************************************************************************)
Callers == DOMAIN pc

\* Sign has been called by c and has not failed fast
ArgsBuilt(c) == pc[c] # "ready" /\ result[c].err.kind # "unsupported hash function"

\* the writer cannot write, the plugin cannot print, and nothing drains stdout
Deadlocked(c) ==
    /\ WriterBlocked(c)
    /\ PluginStdoutBlocked(c)
    /\ ~ENABLED CopyStdout(c)

\* C1: with bounded pipes and a plugin that eventually exits, a Sign call
\* that has begun returns, and the writer is never blocked on a full stdin
\* pipe while the plugin is blocked on a full stdout pipe that nobody reads.
C1_SignReturns ==
    /\ [](\A c \in One : ~Deadlocked(c))
    /\ \A c \in One : (pc[c] \in {"args", "piped", "started"}) ~> (pc[c] = "returned")

\* the plugin has printed more than a pipe buffer without having read its
\* stdin, while the writer waits on a full stdin pipe
C1_Witness ==
    \E c \in Callers :
        /\ WriterBlocked(c)
        /\ plug[c].st = "run"
        /\ plug[c].reads = plug[c].prog.reads
        /\ plug[c].prog.reads > 0
        /\ Len(plug[c].prog.out) - Len(plug[c].out) > PipeCap

\* C2 as stated: every returned call has spawned exactly one child, and
\* leaves no running child and no open pipe end.
C2_ExactlyOneChild ==
    \A c \in Callers :
        pc[c] = "returned" =>
            /\ spawned[c] = 1
            /\ plug[c].st # "run"
            /\ handles[c] = {}

\* C2 amended: a call spawns at most one child: none when it fails fast,
\* when the stdin pipe cannot be made or when the child cannot be started,
\* exactly one otherwise; when it returns no child of it runs and no pipe
\* end of it is open.
C2_AtMostOneChild ==
    \A c \in Callers :
        /\ spawned[c] <= 1
        /\ pc[c] = "returned" =>
            /\ spawned[c] = IF result[c].err.kind \in
                                 {"unsupported hash function", "os.Pipe",
                                  "command failed with"}
                            THEN 0 ELSE 1
            /\ plug[c].st # "run"
            /\ handles[c] = {}

\* a call that ran its child returned while its writer goroutine had not run yet
C2_Witness ==
    \E c \in Callers :
        /\ pc[c] = "returned"
        /\ spawned[c] = 1
        /\ writer[c].st = "write"

\* C3: the argument list is sign --format base64, then --kms kms iff kms is
\* not empty, then for an RSA key only --pss iff PSS is asked for and --alg
\* with the name of the hash, then the key.
C3_ArgumentList ==
    \A c \in Callers :
        ArgsBuilt(c) =>
            args[c] =
                <<"sign", "--format", "base64">>
                \o (IF signer.kms = "" THEN <<>> ELSE <<"--kms", signer.kms>>)
                \o (IF signer.pub # "rsa" THEN <<>>
                    ELSE (IF opts[c].pss THEN <<"--pss">> ELSE <<>>)
                         \o <<"--alg", CASE opts[c].hash = "SHA256" -> "SHA256"
                                         [] opts[c].hash = "SHA384" -> "SHA384"
                                         [] opts[c].hash = "SHA512" -> "SHA512">>)
                \o <<signer.key>>

C3_Witness ==
    \E c \in Callers :
        /\ ArgsBuilt(c)
        /\ signer.pub = "rsa"
        /\ signer.kms = "pkcs11:"
        /\ opts[c] = [pss |-> TRUE, hash |-> "SHA384"]
        /\ args[c] = <<"sign", "--format", "base64", "--kms", "pkcs11:",
                       "--pss", "--alg", "SHA384", "k1">>

\* positions of a flag in an argument list
Positions(a, flag) == {i \in 1..Len(a) : a[i] = flag}

PssRsa(c) == ArgsBuilt(c) /\ signer.pub = "rsa" /\ opts[c].pss

\* C4 as stated: for PSS with an RSA key --pss stands before the key and
\* after --alg and after --kms.
C4_PssAfterAlg ==
    \A c \in Callers :
        PssRsa(c) =>
            \E i \in Positions(args[c], "--pss") :
                /\ i < Len(args[c])
                /\ \A j \in Positions(args[c], "--alg") : j < i
                /\ \A j \in Positions(args[c], "--kms") : j < i

\* C4 amended: for PSS with an RSA key --pss stands before the key, after
\* --kms and its value when present, and immediately before --alg.
C4_PssBeforeAlg ==
    \A c \in Callers :
        PssRsa(c) =>
            \E i \in Positions(args[c], "--pss") :
                /\ i + 2 < Len(args[c])
                /\ args[c][i + 1] = "--alg"
                /\ args[c][Len(args[c])] = signer.key
                /\ \A j \in Positions(args[c], "--kms") : j + 1 < i

C4_Witness ==
    \E c \in Callers :
        /\ PssRsa(c)
        /\ Positions(args[c], "--kms") # {}
        /\ Positions(args[c], "--pss") # {}

\* C5: with an RSA key and a hash other than SHA-256, SHA-384, SHA-512,
\* Sign returns an error naming the hash, and starts no process and opens
\* no pipe.
C5_UnsupportedHash ==
    \A c \in Callers :
        (pc[c] # "ready" /\ signer.pub = "rsa"
            /\ opts[c].hash \notin {"SHA256", "SHA384", "SHA512"}) =>
            /\ pc[c] = "returned"
            /\ result[c] = [sig |-> <<>>,
                            err |-> [kind |-> "unsupported hash function",
                                     hash |-> CASE opts[c].hash = "SHA1"   -> "SHA-1"
                                                [] opts[c].hash = "SHA224" -> "SHA-224"]]
            /\ spawned[c] = 0
            /\ handles[c] = {}
            /\ plug[c] = NoPlug
            /\ writer[c] = NoWriter

C5_Witness ==
    \E c \in Callers :
        /\ pc[c] = "returned"
        /\ signer.pub = "rsa"
        /\ opts[c] = [pss |-> TRUE, hash |-> "SHA1"]
        /\ result[c].err.kind = "unsupported hash function"

\* what the well formed outputs of Stdouts decode to
DecodedBytes(o) ==
    CASE o = <<>>                      -> <<>>
      [] o = <<"Q","Q","=","=">>       -> <<65>>
      [] o = <<"Q","U","E","=","\n">>  -> <<65, 65>>
      [] o = <<"Q","U","F","B">>       -> <<65, 65, 65>>

WellFormed == { <<>>, <<"Q","Q","=","=">>, <<"Q","U","E","=","\n">>, <<"Q","U","F","B">> }

\* C6: once the child ran, a non-zero exit gives the error with the command
\* line and the captured stderr; a zero exit gives the bytes the child's
\* whole stdout decodes to, or a decoding error; the child is run once.
C6_ResultByExitStatus ==
    \A c \in Callers :
        (pc[c] = "returned" /\ spawned[c] >= 1) =>
            /\ spawned[c] = 1
            /\ plug[c].prog.code # 0 =>
                 result[c] = [sig |-> <<>>,
                              err |-> [kind   |-> "command failed with stderr",
                                       cmd    |-> <<signer.name>> \o args[c],
                                       stderr |-> errOut[c]]]
            /\ (plug[c].prog.code = 0 /\ plug[c].prog.out \in WellFormed) =>
                 result[c] = [sig |-> DecodedBytes(plug[c].prog.out), err |-> Nil]
            /\ (plug[c].prog.code = 0 /\ plug[c].prog.out \notin WellFormed) =>
                 result[c].err = [kind |-> "base64.CorruptInputError"]

\* a plugin that printed base64 longer than a pipe buffer and exited zero
C6_Witness ==
    \E c \in Callers :
        /\ pc[c] = "returned"
        /\ plug[c].prog.code = 0
        /\ plug[c].prog.out = <<"Q","U","E","=","\n">>
        /\ plug[c].prog.err # <<>>
        /\ result[c] = [sig |-> <<65, 65>>, err |-> Nil]

\* C7: a plugin signer's key is fetched by one "key" subprocess; once the
\* signer exists no step changes it or starts another "key" subprocess, and
\* Public returns its key.
C7_KeyFetchedOnce ==
    /\ [](IsKMSSigner(signer) => keySpawns = 1)
    /\ [](IsKMSSigner(signer) /\ ret.op = "Public" => ret.val = signer.pub)
    /\ [][signer # NoSigner => signer' = signer /\ keySpawns' = keySpawns]_vars

\* two calls have returned, one with a signature and one with an error,
\* and Public was called last
C7_Witness ==
    /\ IsKMSSigner(signer)
    /\ ret.op = "Public"
    /\ \A c \in Callers : pc[c] = "returned"
    /\ \E c, d \in Callers : result[c].err = Nil /\ result[d].err # Nil

\* the kms values of AllKms that begin with sshagentkms: whatever the case
SSHAgentKms == {"sshagentkms:", "SSHAgentKMS:a"}

\* C8: IsX509Signer of a plugin signer whose kms begins with sshagentkms:
\* (in any case) is true iff the key is Ed25519; of any other signer it is
\* true iff the key is ECDSA, RSA or Ed25519.
C8_IsX509Signer ==
    ret.op = "IsX509Signer" =>
        ret.val = IF signer.variant = "kms" /\ signer.kms \in SSHAgentKms
                  THEN signer.pub = "ed25519"
                  ELSE signer.pub \in {"ecdsa", "rsa", "ed25519"}

C8_Witness ==
    /\ ret = [op |-> "IsX509Signer", val |-> FALSE]
    /\ signer.variant = "kms"
    /\ signer.kms = "SSHAgentKMS:a"
    /\ signer.pub = "rsa"

\* the writer goroutine has ended having closed the stdin pipe
WriterClosed(c) ==
    /\ writer[c].st = "done"
    /\ writer[c].closed
    /\ "stdin_w" \notin handles[c]

\* C9: once started, the writer goroutine ends, and it closes the stdin
\* pipe as its next step after the write, whether the write succeeded or
\* failed.
C9_WriterCloses ==
    /\ \A c \in One : (writer[c].st # "none") ~> WriterClosed(c)
    /\ [][\A c \in One :
            (writer[c].st = "close" /\ writer'[c] # writer[c]) =>
                (writer'[c].st = "done" /\ writer'[c].closed
                 /\ "stdin_w" \notin handles'[c])]_vars

\* the child could not be started, the write failed, the pipe was closed
C9_Witness ==
    \E c \in Callers :
        /\ WriterClosed(c)
        /\ writer[c].failed
        /\ plug[c].st = "none"

\* C10: a call that fails because the child could not be started or a pipe
\* could not be made returns an error with the command line and the cause,
\* and without stderr.
C10_LaunchErrorHasCommand ==
    \A c \in Callers :
        (pc[c] = "returned" /\ spawned[c] = 0
            /\ result[c].err.kind # "unsupported hash function") =>
            /\ DOMAIN result[c].err = {"kind", "cmd", "cause"}
            /\ result[c].err.cmd = <<signer.name>> \o args[c]

====
